---- MODULE Spec2Model ----
(***************************************************************************)
(* Model of the mesh gateway client of mininet-web:                        *)
(*   backend/app/services/mesh_authority_client.py  (MeshAuthorityClient)  *)
(*   backend/app/api/v1/endpoints/mesh.py           (ping-all summary)     *)
(*   backend/app/models/base.py                     (AuthorityInfo)        *)
(*                                                                         *)
(* The client runs on one asyncio event loop: the code between two awaits  *)
(* that really suspend (an HTTP request, aclose) is one atomic action.     *)
(* Time is counted in units of 30 seconds, so the 30 s cache duration is   *)
(* one unit.                                                               *)
(***************************************************************************)
EXTENDS Integers, Sequences, FiniteSets, TLC

VARIABLES
  authorities,            \* self.authorities: name -> AuthorityInfo
  _running,               \* self._running
  _http_client,           \* self._http_client: "none", "open" or "closed"
  _last_discovery_time,   \* self._last_discovery_time
  discovery_file,         \* the file at self.discovery_file
  now,                    \* time.time()
  pc,                     \* per caller: where its call is suspended
  call,                   \* per caller: the frame of its suspended call
  ret,                    \* what the last step returned to its caller
  probes,                 \* per caller: the ping tasks of its ping-all
  consecutive_failures,   \* observer: failed discoveries in a row
  store_in,               \* round trip: the list handed to the save
  store_out,              \* round trip: what the load returned
  mesh_client,            \* the MeshClient singleton: its _http and _cache, and its calls
  manager,                \* the ConnectionManager singleton and its broadcast
  bridge,                 \* the MeshInternetBridge, its registrations so far and its request handler
  reply                   \* what the last bridge call or request produced

vars == <<authorities, _running, _http_client, _last_discovery_time, discovery_file, now, pc, call, ret, probes, consecutive_failures, store_in, store_out, mesh_client, manager, bridge, reply>>

clientVars == <<authorities, _running, _http_client, _last_discovery_time, discovery_file>>

\* ------------------------------------------------------------------------
\* Bounds of the model
\* ------------------------------------------------------------------------

\* the clock stops at MaxTime
MaxTime == 4
\* longest authority list a gateway response carries
MaxResp == 2
\* longest list handed to the save, and longest list in a discovery file
\* the load is tried on
MaxList == 2

\* ------------------------------------------------------------------------
\* Data: authority records and their JSON shapes
\* ------------------------------------------------------------------------

\* AuthorityStatus
StatusValues == {"online", "offline", "syncing", "unknown"}

\* a JSON null where an object is expected
JsonNull == [json |-> "null"]

\* list(a_set): some enumeration of the set, without repetition
RECURSIVE SetToSeq(_)
SetToSeq(S) == IF S = {} THEN << >> ELSE LET x == CHOOSE y \in S : TRUE IN <<x>> \o SetToSeq(S \ {x})

\* set(a_list)
SeqToSet(s) == {s[i] : i \in 1..Len(s)}

\* The JSON object of one authority, as the gateway bridge sends it and as
\* the discovery file stores it: {name, ip, port, position, status,
\* committee_members}.
AuthData(n, ip, port, pos, st, cm) == [name |-> n, ip |-> ip, port |-> port, position |-> pos, status |-> st, committee_members |-> cm]

Pos(x, y, z) == [x |-> x, y |-> y, z |-> z]

\* AuthorityInfo(name, address=Address(...), position=Position(...), status,
\* shards=[], committee_members=set(...), performance_metrics={}).  The model
\* class sets use_enum_values, so the status field holds the plain string.
AuthorityInfo(n, ip, port, pos, st, cm) == [name |-> n, address |-> [node_id |-> n, ip_address |-> ip, port |-> port, node_type |-> "authority"], position |-> pos, status |-> st, committee_members |-> cm]

\* a value that stands where a constructor raised
NoAuthority == AuthorityInfo("", "", 0, Pos(0, 0, 0), "unknown", {})

\* The five mock authorities of _initialize_fallback_authorities.
MockNames == {"auth1", "auth2", "auth3", "auth4", "auth5"}

MockIndex(n) == CASE n = "auth1" -> 1 [] n = "auth2" -> 2 [] n = "auth3" -> 3 [] n = "auth4" -> 4 [] OTHER -> 5

MockIp(n) == CASE n = "auth1" -> "10.0.0.11" [] n = "auth2" -> "10.0.0.12" [] n = "auth3" -> "10.0.0.13" [] n = "auth4" -> "10.0.0.14" [] OTHER -> "10.0.0.15"

MockAuthority(n) == AuthorityInfo(n, MockIp(n), 8000 + MockIndex(n), Pos(20 + 25 * MockIndex(n), 40, 0), "offline", MockNames \ {n})

\* ------------------------------------------------------------------------
\* Inputs: what the gateway may answer and what may lie on disk
\* ------------------------------------------------------------------------

\* Authority objects a gateway response may carry, in the order the gateway
\* lists them: two well-formed ones, one with a status outside the
\* enumeration (ValueError) and one whose position is null (TypeError).
GwMaster == << AuthData("auth1", "10.0.0.11", 8001, Pos(45, 40, 0), "online", <<"auth2">>), AuthData("auth2", "10.0.0.12", 8002, Pos(70, 40, 0), "bogus", <<"auth1">>), AuthData("auth2", "10.0.0.12", 8002, Pos(70, 40, 0), "syncing", <<"auth1", "auth3">>), AuthData("auth1", "10.0.0.11", 8001, JsonNull, "online", <<"auth2">>) >>

\* the elements of s at the positions in I, in order
RECURSIVE SubSeq_(_, _)
SubSeq_(s, I) == IF I = {} THEN << >> ELSE LET i == CHOOSE j \in I : \A k \in I : j <= k IN <<s[i]>> \o SubSeq_(s, I \ {i})

\* the lists under the "authorities" key of a 200 response
GwLists == { SubSeq_(GwMaster, I) : I \in { J \in SUBSET (1..Len(GwMaster)) : Cardinality(J) <= MaxResp } }

\* sequences over S of length at most n
SeqsUpTo(S, n) == UNION { [1..k -> S] : k \in 0..n }

\* authority objects a discovery file left by an earlier run may hold
FilePool == { AuthData("auth3", "10.0.0.13", 8003, Pos(95, 40, 0), "unknown", <<"auth1">>) }

\* the discovery file: absent (or unreadable), or a JSON list
NoFile == [exists |-> FALSE, data |-> << >>]

FileOf(list) == [exists |-> TRUE, data |-> list]

\* at start-up the file is absent, empty or holds one record
InitFiles == {NoFile, FileOf(<< >>)} \cup { FileOf(<<e>>) : e \in FilePool }

\* ------------------------------------------------------------------------
\* The fallback store: _save_discovery_file and _load_discovery_file
\* ------------------------------------------------------------------------

\* The status of an AuthorityInfo built without a status argument: the
\* field default, the Enum member AuthorityStatus.UNKNOWN.  A default is not
\* validated, so use_enum_values does not turn it into a str.
DefaultStatus == "AuthorityStatus.UNKNOWN"

\* Whether `status.value` can be read.  A status passed to AuthorityInfo is
\* stored as a plain str (Config.use_enum_values = True), and a str has no
\* attribute `value`: the read raises AttributeError.  Only the Enum member
\* of the field default has it.
HasValueAttr(st) == st = DefaultStatus

\* AuthorityStatus.UNKNOWN.value
StatusValue(st) == "unknown"

\* One entry of authorities_data in _save_discovery_file.
SaveEntryWithoutStatus(auth, t) == IF HasValueAttr(auth.status) THEN [err |-> "none", val |-> [name |-> auth.name, ip |-> auth.address.ip_address, port |-> auth.address.port, position |-> Pos(auth.position.x, auth.position.y, auth.position.z), committee_members |-> SetToSeq(auth.committee_members)]] ELSE [err |-> "AttributeError", val |-> [name |-> auth.name]]

SaveEntry(auth, t) == IF HasValueAttr(auth.status) THEN [err |-> "none", val |-> [name |-> auth.name, ip |-> auth.address.ip_address, port |-> auth.address.port, position |-> Pos(auth.position.x, auth.position.y, auth.position.z), status |-> StatusValue(auth.status), committee_members |-> SetToSeq(auth.committee_members), timestamp |-> t]] ELSE [err |-> "AttributeError", val |-> [name |-> auth.name]]

\* _save_discovery_file: the file after the call.  The entries are built
\* first; an exception while building them is caught and logged, and the
\* file is then neither opened nor written.
_save_discovery_file(auths, file, t) == LET entries == [i \in 1..Len(auths) |-> SaveEntry(auths[i], t)] IN IF \E i \in 1..Len(auths) : entries[i].err # "none" THEN file ELSE FileOf([i \in 1..Len(auths) |-> entries[i].val])

\* the status a record restored from the file gets
LoadedStatusFromFile(auth_data) == auth_data.status

LoadedStatus(auth_data) == "offline"

\* One AuthorityInfo built in _load_discovery_file.
LoadEntry(auth_data) == AuthorityInfo(auth_data.name, auth_data.ip, auth_data.port, Pos(auth_data.position.x, auth_data.position.y, auth_data.position.z), LoadedStatus(auth_data), SeqToSet(auth_data.committee_members))

\* self.authorities after `self.authorities[info.name] = info` for every
\* element of the list, in order
RECURSIVE PutAll(_, _)
PutAll(auths, list) == IF list = << >> THEN auths ELSE LET a == Head(list) IN PutAll([n \in DOMAIN auths \cup {a.name} |-> IF n = a.name THEN a ELSE auths[n]], Tail(list))

\* _load_discovery_file: [ok, list, auths].  ok is FALSE when the file
\* cannot be opened or parsed (the method returns None).
_load_discovery_file(file, auths) == IF ~file.exists THEN [ok |-> FALSE, list |-> << >>, auths |-> auths] ELSE LET list == [i \in 1..Len(file.data) |-> LoadEntry(file.data[i])] IN [ok |-> TRUE, list |-> list, auths |-> PutAll(auths, list)]

\* ------------------------------------------------------------------------
\* Discovery: discover_mesh_authorities
\* ------------------------------------------------------------------------

\* self._discovery_cache_duration = 30.0, in units of 30 s
DiscoveryCacheDuration == 1

\* the clock at construction: time.time() is far beyond the cache duration
\* away from the initial _last_discovery_time of 0.0
StartTime == DiscoveryCacheDuration + 1

Values(auths) == { auths[n] : n \in DOMAIN auths }

\* The AuthorityInfo(...) expression of the discovery loop.  The arguments
\* are evaluated in order: a null position raises TypeError before the
\* status is looked at; a status outside AuthorityStatus raises ValueError.
ParseAuthority(auth_data) ==
  IF auth_data.position = JsonNull THEN [err |-> "TypeError", val |-> NoAuthority]
  ELSE IF auth_data.status \notin StatusValues THEN [err |-> "ValueError", val |-> NoAuthority]
  ELSE [err |-> "none", val |-> AuthorityInfo(auth_data.name, auth_data.ip, auth_data.port, Pos(auth_data.position.x, auth_data.position.y, auth_data.position.z), auth_data.status, SeqToSet(auth_data.committee_members))]

\* The loop over authorities_data['authorities']: KeyError and ValueError
\* skip the entry; any other exception leaves the loop, and the entries
\* stored in self.authorities so far stay.
RECURSIVE ParseLoop(_, _, _)
ParseLoop(list, auths, acc) ==
  IF list = << >> THEN [err |-> "none", auths |-> auths, list |-> acc]
  ELSE LET r == ParseAuthority(Head(list)) IN
       IF r.err = "none" THEN ParseLoop(Tail(list), PutAll(auths, <<r.val>>), Append(acc, r.val))
       ELSE IF r.err = "ValueError" THEN ParseLoop(Tail(list), auths, acc)
       ELSE [err |-> r.err, auths |-> auths, list |-> acc]

\* what a discovery hands back: the client's fields after it, the exception
\* it raised ("none": it returned `result`), whether the live discovery
\* succeeded and whether the discovery file was read
Outcome(auths, last, file, raised, result, live, consulted) == [auths |-> auths, last |-> last, file |-> file, raised |-> raised, result |-> result, live |-> live, consulted |-> consulted]

\* The `except Exception` handler of discover_mesh_authorities.
DiscoverFallback(auths, last, file) ==
  LET l == _load_discovery_file(file, auths) IN
  IF l.ok /\ l.list # << >> THEN Outcome(l.auths, last, file, "none", l.list, FALSE, TRUE)
  ELSE Outcome(l.auths, last, file, "Discovery failed", << >>, FALSE, TRUE)

\* The `except httpx.HTTPError` handler.
DiscoverHttpError(auths, last, file) == Outcome(auths, last, file, "HTTP error", << >>, FALSE, FALSE)

\* discover_mesh_authorities from the answer to GET /authorities on.
\* resp.kind: "http_error" (transport error or raise_for_status),
\* "bad_json" (the body is no JSON object), "ok" (resp.list is the list
\* under 'authorities').
DiscoverOnResponse(resp, auths, last, file, t) ==
  IF resp.kind = "http_error" THEN DiscoverHttpError(auths, last, file)
  ELSE IF resp.kind = "bad_json" THEN DiscoverFallback(auths, last, file)
  ELSE LET r == ParseLoop(resp.list, auths, << >>) IN
       IF r.err # "none" THEN DiscoverFallback(r.auths, last, file)
       ELSE Outcome(r.auths, t, _save_discovery_file(r.list, file, t), "none", r.list, TRUE, FALSE)

\* discover_mesh_authorities when no request goes out: without a client it
\* raises at once; on a closed client the request raises RuntimeError,
\* which the `except Exception` handler takes.
DiscoverNoRequest(http, auths, last, file) ==
  IF http = "none" THEN Outcome(auths, last, file, "Client not started", << >>, FALSE, FALSE)
  ELSE DiscoverFallback(auths, last, file)

\* the answers the gateway may give to GET /authorities
Responses == {[kind |-> "http_error", list |-> << >>], [kind |-> "bad_json", list |-> << >>]} \cup { [kind |-> "ok", list |-> l] : l \in GwLists }

\* _initialize_fallback_authorities
_initialize_fallback_authorities(auths) == PutAll(auths, [i \in 1..5 |-> MockAuthority(CHOOSE n \in MockNames : MockIndex(n) = i)])

\* ------------------------------------------------------------------------
\* The callers and their calls
\* ------------------------------------------------------------------------

\* The tasks that call into the client concurrently: the task that owns
\* the client (it starts and stops it and reads the authorities) and a
\* request handler (it reads the authorities and forces refreshes).
Owner == "owner"

Callers == {Owner, "handler"}

Handlers == Callers \ {Owner}

\* the age of the cache, against the cache duration
CacheAge(t, last) == IF t - last < DiscoveryCacheDuration THEN "fresh" ELSE IF t - last = DiscoveryCacheDuration THEN "boundary" ELSE "stale"

NoOutcome == Outcome(<< >>, 0, NoFile, "none", << >>, FALSE, FALSE)

\* the result of the ping-all endpoint when no ping-all ended
NoSummary == [total_authorities |-> 0, successful_pings |-> 0, failed_pings |-> 0, success_rate |-> [num |-> 0, den |-> 1], average_latency_ms_x100 |-> 0]

\* What a step that ends a call hands to the caller, with what the call
\* found and did.  cache: the cache age when the call was made; client:
\* self._http_client then; http: the HTTP requests the call issued;
\* refreshed: the call ran a discovery, d its outcome.
Returned(p, op, cache, client, http, raised, result, refreshed, d) == [who |-> p, op |-> op, cache |-> cache, client |-> client, http |-> http, raised |-> raised, result |-> result, refreshed |-> refreshed, live |-> d.live, consulted |-> d.consulted, results |-> << >>, summary |-> NoSummary]

\* no call ended in the last step
NoRet == [who |-> "none", op |-> "none", cache |-> "none", client |-> "none", http |-> 0, raised |-> "none", result |-> {}, refreshed |-> FALSE, live |-> FALSE, consulted |-> FALSE, results |-> << >>, summary |-> NoSummary]

\* the frame of a suspended call: the cache age and self._http_client it
\* found, and the HTTP requests it has issued
Frame(cache, client, http) == [cache |-> cache, client |-> client, http |-> http]

NoFrame == Frame("none", "none", 0)

\* the cache test of get_authorities: the cache is stale
IsStaleIgnoringLast(t, last) == t > DiscoveryCacheDuration

IsStale(t, last) == t - last > DiscoveryCacheDuration

\* self.authorities when discover_mesh_authorities suspends in its GET: the
\* code before the request writes nothing into it
ClearedBeforeGet(auths) == << >>

BeforeGet(auths) == auths

Finish(p, r) ==
  /\ pc' = [pc EXCEPT ![p] = "idle"]
  /\ call' = [call EXCEPT ![p] = NoFrame]
  /\ ret' = r

Suspend(p, where, client) ==
  /\ pc' = [pc EXCEPT ![p] = where]
  /\ call' = [call EXCEPT ![p] = Frame(CacheAge(now, _last_discovery_time), client, 1)]
  /\ ret' = NoRet

Apply(d) ==
  /\ authorities' = d.auths
  /\ _last_discovery_time' = d.last
  /\ discovery_file' = d.file

\* time passes
Tick ==
  /\ now < MaxTime
  /\ now' = now + 1
  /\ ret' = NoRet
  /\ UNCHANGED <<clientVars, pc, call, probes>>

\* start(), up to the GET of its initial discovery
start(p) ==
  /\ pc[p] = "idle"
  /\ _running' = TRUE
  /\ _http_client' = "open"
  /\ Suspend(p, "start_wait", "open")
  /\ authorities' = BeforeGet(authorities)
  /\ UNCHANGED <<_last_discovery_time, discovery_file, now, probes>>

\* stop(), up to `await self._http_client.aclose()`
stop(p) ==
  /\ pc[p] = "idle"
  /\ _running' = FALSE
  /\ IF _http_client = "none"
       THEN /\ Finish(p, Returned(p, "stop", "none", _http_client, 0, "none", {}, FALSE, NoOutcome))
            /\ UNCHANGED _http_client
       ELSE /\ _http_client' = "closed"
            /\ Suspend(p, "close_wait", _http_client)
  /\ UNCHANGED <<authorities, _last_discovery_time, discovery_file, now, probes>>

\* stop(), after aclose(): self._http_client = None
stop_closed_keeps_client(p) ==
  /\ pc[p] = "close_wait"
  /\ Finish(p, Returned(p, "stop", "none", _http_client, 0, "none", {}, FALSE, NoOutcome))
  /\ UNCHANGED <<authorities, _running, _http_client, _last_discovery_time, discovery_file, now, probes>>

stop_closed(p) ==
  /\ pc[p] = "close_wait"
  /\ _http_client' = "none"
  /\ Finish(p, Returned(p, "stop", "none", _http_client, 0, "none", {}, FALSE, NoOutcome))
  /\ UNCHANGED <<authorities, _running, _last_discovery_time, discovery_file, now, probes>>

\* discover_mesh_authorities(), called directly (a forced refresh), up to
\* its GET; without an open client it ends at once
discover_mesh_authorities(p) ==
  /\ pc[p] = "idle"
  /\ IF _http_client = "open"
       THEN /\ Suspend(p, "discover_wait", _http_client)
            /\ authorities' = BeforeGet(authorities)
            /\ UNCHANGED <<_running, _http_client, _last_discovery_time, discovery_file>>
       ELSE LET d == DiscoverNoRequest(_http_client, authorities, _last_discovery_time, discovery_file) IN
            /\ Apply(d)
            /\ Finish(p, Returned(p, "discover", CacheAge(now, _last_discovery_time), _http_client, 0, d.raised, SeqToSet(d.result), TRUE, d))
            /\ UNCHANGED <<_running, _http_client>>
  /\ UNCHANGED <<now, probes>>

\* get_authorities(): a fresh cache is returned at once; a stale one starts
\* a discovery, whose exception is logged and dropped
get_authorities(p) ==
  /\ pc[p] = "idle"
  /\ IF ~IsStale(now, _last_discovery_time)
       THEN /\ Finish(p, Returned(p, "get_authorities", CacheAge(now, _last_discovery_time), _http_client, 0, "none", Values(authorities), FALSE, NoOutcome))
            /\ UNCHANGED clientVars
       ELSE IF _http_client = "open"
       THEN /\ Suspend(p, "get_wait", _http_client)
            /\ authorities' = BeforeGet(authorities)
            /\ UNCHANGED <<_running, _http_client, _last_discovery_time, discovery_file>>
       ELSE LET d == DiscoverNoRequest(_http_client, authorities, _last_discovery_time, discovery_file) IN
            /\ Apply(d)
            /\ Finish(p, Returned(p, "get_authorities", CacheAge(now, _last_discovery_time), _http_client, 0, "none", Values(d.auths), TRUE, d))
            /\ UNCHANGED <<_running, _http_client>>
  /\ UNCHANGED <<now, probes>>

\* The gateway answers the GET /authorities of caller p: the discovery runs
\* to its end and the call that made it goes on.
gateway_responds(p, resp) ==
  /\ pc[p] \in {"start_wait", "discover_wait", "get_wait"}
  /\ LET d == DiscoverOnResponse(resp, authorities, _last_discovery_time, discovery_file, now) IN
     /\ _last_discovery_time' = d.last
     /\ discovery_file' = d.file
     /\ IF pc[p] = "start_wait"
          THEN /\ authorities' = IF d.raised # "none" THEN _initialize_fallback_authorities(d.auths) ELSE d.auths
               /\ Finish(p, Returned(p, "start", call[p].cache, call[p].client, call[p].http, "none", {}, TRUE, d))
          ELSE IF pc[p] = "discover_wait"
          THEN /\ authorities' = d.auths
               /\ Finish(p, Returned(p, "discover", call[p].cache, call[p].client, call[p].http, d.raised, SeqToSet(d.result), TRUE, d))
          ELSE /\ authorities' = d.auths
               /\ Finish(p, Returned(p, "get_authorities", call[p].cache, call[p].client, call[p].http, "none", Values(d.auths), TRUE, d))
  /\ UNCHANGED <<_running, _http_client, now, probes>>

\* ------------------------------------------------------------------------
\* Probes: ping_mesh_authority, _safe_ping_authority, ping_all_authorities
\* and the summary of the ping-all endpoint
\* ------------------------------------------------------------------------

\* dict.get(key, default)
Get(d, key, default) == IF key \in DOMAIN d THEN d[key] ELSE default

\* latencies, in ms, a ping answer may report
PingLatencies == {10, 11}

\* where no JSON object was received or returned
NoBody == [none |-> TRUE]

\* The answers to POST /authorities/{name}/ping: a transport error or an
\* error status, or a JSON object: a success with its latency, or a failure
\* (which may carry a latency too).
PingResponses == {[kind |-> "http_error", body |-> NoBody], [kind |-> "ok", body |-> [success |-> FALSE, error |-> "timeout", latency_ms |-> 11]]} \cup { [kind |-> "ok", body |-> [success |-> TRUE, latency_ms |-> l]] : l \in PingLatencies }

\* no request was answered
NoAnswer == [kind |-> "none", body |-> NoBody]

\* ping_mesh_authority from the answer to its POST on: the exception it
\* raises ("none": it returns `result`).  The error raised for a body
\* without success is raised inside the try and wrapped by `except Exception`.
PingOnResponse(resp) ==
  IF resp.kind = "http_error" THEN [raised |-> "HTTP error", result |-> NoBody]
  ELSE IF Get(resp.body, "success", FALSE) THEN [raised |-> "none", result |-> resp.body]
  ELSE [raised |-> "Ping error: Ping failed", result |-> NoBody]

\* ping_mesh_authority when no request goes out: without a client it raises
\* at once; on a closed client the request raises RuntimeError
PingNoRequest(http) == IF http = "none" THEN [raised |-> "Client not started", result |-> NoBody] ELSE [raised |-> "Ping error", result |-> NoBody]

\* _safe_ping_authority: what the task of authority n returns when its
\* ping_mesh_authority ended as o
_safe_ping_authority(n, o) == IF o.raised # "none" THEN [success |-> FALSE, error |-> o.raised, authority |-> n] ELSE o.result

\* a ping task: "created", "inflight" (suspended in its POST) or "done";
\* the answer its POST got and what it returned
Task(state, answer, result) == [state |-> state, answer |-> answer, result |-> result]

\* the `await task` of the collection loop, for every task
AllDone(tasks) == \A n \in DOMAIN tasks : tasks[n].state = "done"

\* the collection loop of ping_all_authorities: results[auth_name] = result
FailedTasksDropped(tasks) == [n \in {m \in DOMAIN tasks : Get(tasks[m].result, "success", FALSE)} |-> tasks[n].result]

CollectResults(tasks) == [n \in DOMAIN tasks |-> tasks[n].result]

\* sum(f[x] for x in S)
RECURSIVE Sum(_, _)
Sum(f, S) == IF S = {} THEN 0 ELSE LET x == CHOOSE y \in S : TRUE IN f[x] + Sum(f, S \ {x})

\* round(total / count, 2), in hundredths.  For the integer totals and the
\* counts of this model total / count is never half-way between two
\* hundredths, so the rounding mode does not matter.
Round2(total, count) == (200 * total + count) \div (2 * count)

\* The summary of ping_all_mesh_authorities with the latency summed over
\* every result.
SummaryOverAllResults(results) ==
  LET ok == {n \in DOMAIN results : Get(results[n], "success", FALSE)}
      successful_pings == Cardinality(ok)
      total_authorities == Cardinality(DOMAIN results)
      total_latency == Sum([n \in DOMAIN results |-> Get(results[n], "latency_ms", 0)], DOMAIN results)
  IN  [total_authorities |-> total_authorities, successful_pings |-> successful_pings, failed_pings |-> total_authorities - successful_pings, success_rate |-> IF total_authorities > 0 THEN [num |-> successful_pings, den |-> total_authorities] ELSE [num |-> 0, den |-> 1], average_latency_ms_x100 |-> IF successful_pings > 0 THEN Round2(total_latency, total_authorities) ELSE 0]

\* The summary of ping_all_mesh_authorities.  success_rate is the quotient
\* num / den; average_latency_ms is given in hundredths.
ping_all_mesh_authorities(results) ==
  LET ok == {n \in DOMAIN results : Get(results[n], "success", FALSE)}
      successful_pings == Cardinality(ok)
      total_authorities == Cardinality(DOMAIN results)
      total_latency == Sum([n \in ok |-> Get(results[n], "latency_ms", 0)], ok)
  IN  [total_authorities |-> total_authorities, successful_pings |-> successful_pings, failed_pings |-> total_authorities - successful_pings, success_rate |-> IF total_authorities > 0 THEN [num |-> successful_pings, den |-> total_authorities] ELSE [num |-> 0, den |-> 1], average_latency_ms_x100 |-> IF successful_pings > 0 THEN Round2(total_latency, successful_pings) ELSE 0]

\* what the ping-all endpoint hands back
PingReturned(p, frame, results) == [Returned(p, "ping_all", frame.cache, frame.client, frame.http, "none", {}, FALSE, NoOutcome) EXCEPT !.results = results, !.summary = ping_all_mesh_authorities(results)]

\* ping_all_authorities once get_authorities() has returned auths: one task
\* per authority is created; with no authority the empty result is returned
FanOut(p, auths, frame) ==
  IF DOMAIN auths = {}
    THEN /\ Finish(p, PingReturned(p, frame, << >>))
         /\ UNCHANGED probes
    ELSE /\ pc' = [pc EXCEPT ![p] = "ping_created"]
         /\ call' = [call EXCEPT ![p] = frame]
         /\ ret' = NoRet
         /\ probes' = [probes EXCEPT ![p] = [n \in DOMAIN auths |-> Task("created", NoAnswer, NoBody)]]

\* The ping-all endpoint calls ping_all_authorities(), which starts with
\* get_authorities(): a stale cache on an open client suspends in the GET of
\* the refresh; otherwise the tasks are created at once.
ping_all_authorities(p) ==
  /\ pc[p] = "idle"
  /\ IF IsStale(now, _last_discovery_time) /\ _http_client = "open"
       THEN /\ Suspend(p, "ping_get_wait", _http_client)
            /\ authorities' = BeforeGet(authorities)
            /\ UNCHANGED <<_running, _http_client, _last_discovery_time, discovery_file, probes>>
       ELSE LET d == IF IsStale(now, _last_discovery_time) THEN DiscoverNoRequest(_http_client, authorities, _last_discovery_time, discovery_file) ELSE Outcome(authorities, _last_discovery_time, discovery_file, "none", << >>, FALSE, FALSE) IN
            /\ Apply(d)
            /\ FanOut(p, d.auths, Frame(CacheAge(now, _last_discovery_time), _http_client, 0))
            /\ UNCHANGED <<_running, _http_client>>
  /\ UNCHANGED now

\* The gateway answers the GET /authorities of the refresh inside
\* ping_all_authorities: get_authorities() returns and the tasks are created.
ping_gateway_responds(p, resp) ==
  /\ pc[p] = "ping_get_wait"
  /\ LET d == DiscoverOnResponse(resp, authorities, _last_discovery_time, discovery_file, now) IN
     /\ Apply(d)
     /\ FanOut(p, d.auths, call[p])
  /\ UNCHANGED <<_running, _http_client, now>>

\* ping_all_authorities awaits its first task and the tasks start, one
\* after the other: each runs ping_mesh_authority up to its POST.  The name
\* of a task is held (no record is ever removed from self.authorities), so
\* no task runs the discovery of an unknown name.
ping_tasks_start(p) ==
  /\ pc[p] = "ping_created"
  /\ pc' = [pc EXCEPT ![p] = "ping_wait"]
  /\ probes' = [probes EXCEPT ![p] = [n \in DOMAIN probes[p] |-> IF _http_client = "open" THEN Task("inflight", NoAnswer, NoBody) ELSE Task("done", NoAnswer, _safe_ping_authority(n, PingNoRequest(_http_client)))]]
  /\ call' = [call EXCEPT ![p].http = @ + (IF _http_client = "open" THEN Cardinality(DOMAIN probes[p]) ELSE 0)]
  /\ ret' = NoRet
  /\ UNCHANGED <<clientVars, now>>

\* self.authorities after ping_mesh_authority has handled the answer o to
\* its POST for authority n: neither the result nor an error is written
\* into the held records
ProbeResetsRecord(auths, n, o) == [m \in DOMAIN auths |-> IF m = n /\ o.raised # "none" THEN [auths[m] EXCEPT !.position = Pos(0, 0, 0), !.committee_members = {}] ELSE auths[m]]

AfterProbe(auths, n, o) == auths

\* The gateway answers the POST of the task of authority n.
probe_responds(p, n, resp) ==
  /\ pc[p] = "ping_wait"
  /\ n \in DOMAIN probes[p]
  /\ probes[p][n].state = "inflight"
  /\ probes' = [probes EXCEPT ![p][n] = Task("done", resp, _safe_ping_authority(n, PingOnResponse(resp)))]
  /\ authorities' = AfterProbe(authorities, n, PingOnResponse(resp))
  /\ ret' = NoRet
  /\ UNCHANGED <<_running, _http_client, _last_discovery_time, discovery_file, now, pc, call>>

\* Every task has been awaited: ping_all_authorities returns the results and
\* the endpoint computes the summary.
ping_all_returns(p) ==
  /\ pc[p] = "ping_wait"
  /\ AllDone(probes[p])
  /\ Finish(p, PingReturned(p, call[p], CollectResults(probes[p])))
  /\ probes' = [probes EXCEPT ![p] = << >>]
  /\ UNCHANGED <<clientVars, now>>

\* The class of the exception a ping_mesh_authority or send_mesh_transfer
\* call r ended with.  Every raise statement of the two methods raises
\* MeshAuthorityCommunicationError; the discovery they run for a name that
\* is not held is awaited outside their try block, so what it raises (with
\* "HTTP error" or "Discovery failed") leaves the call as it is.
ExceptionType(r) ==
  IF r.raised = "none" THEN "none"
  ELSE IF r.refreshed /\ r.raised \in {"HTTP error", "Discovery failed"} THEN "MeshAuthorityDiscoveryError"
  ELSE "MeshAuthorityCommunicationError"

\* names a caller may hand to ping_mesh_authority and send_mesh_transfer: one
\* the gateway knows and one that nobody knows
ProbeNames == {"auth1", "auth6"}

\* what a single ping_mesh_authority call hands back: the exception raised,
\* or the result under the name of the authority; refreshed: the step that
\* ends the call ran a discovery, d its outcome
ProbeReturned(p, n, frame, http, o, refreshed, d) == [Returned(p, "ping", frame.cache, frame.client, http, o.raised, {}, refreshed, d) EXCEPT !.results = IF o.raised = "none" THEN [m \in {n} |-> o.result] ELSE << >>]

\* ping_mesh_authority after a discovery d it ran for a name n that was not
\* held: the error of the discovery goes up as it is; a name still not held
\* raises "not found"; "none" says that the POST comes next
ProbeAfterDiscovery(n, d) == IF d.raised # "none" THEN d.raised ELSE IF n \notin DOMAIN d.auths THEN "Authority not found" ELSE "none"

\* ping_mesh_authority(n), called on its own, up to its first request.
\* Without a client it raises at once.  A name that is not held runs a
\* discovery first; a held name goes to the POST, which raises on a closed
\* client.
ping_mesh_authority(p, n) ==
  /\ pc[p] = "idle"
  /\ LET here == Frame(CacheAge(now, _last_discovery_time), _http_client, 0) IN
     IF _http_client = "none"
       THEN /\ Finish(p, ProbeReturned(p, n, here, 0, PingNoRequest(_http_client), FALSE, NoOutcome))
            /\ UNCHANGED <<clientVars, probes>>
     ELSE IF n \in DOMAIN authorities
       THEN IF _http_client = "open"
              THEN /\ Suspend(p, "ping_post_wait", _http_client)
                   /\ probes' = [probes EXCEPT ![p] = [m \in {n} |-> Task("inflight", NoAnswer, NoBody)]]
                   /\ UNCHANGED clientVars
              ELSE /\ Finish(p, ProbeReturned(p, n, here, 0, PingNoRequest(_http_client), FALSE, NoOutcome))
                   /\ UNCHANGED <<clientVars, probes>>
     ELSE IF _http_client = "open"
       THEN /\ Suspend(p, "ping_discover_wait", _http_client)
            /\ probes' = [probes EXCEPT ![p] = [m \in {n} |-> Task("created", NoAnswer, NoBody)]]
            /\ authorities' = BeforeGet(authorities)
            /\ UNCHANGED <<_running, _http_client, _last_discovery_time, discovery_file>>
     ELSE LET d == DiscoverNoRequest(_http_client, authorities, _last_discovery_time, discovery_file)
              e == ProbeAfterDiscovery(n, d) IN
          /\ Apply(d)
          /\ Finish(p, ProbeReturned(p, n, here, 0, IF e # "none" THEN [raised |-> e, result |-> NoBody] ELSE PingNoRequest(_http_client), TRUE, d))
          /\ UNCHANGED <<_running, _http_client, probes>>
  /\ UNCHANGED now

\* The gateway answers the GET /authorities of the discovery inside
\* ping_mesh_authority: the call ends with the discovery's error or with
\* "not found", or goes on to its POST.
ping_discover_responds(p, resp) ==
  /\ pc[p] = "ping_discover_wait"
  /\ LET d == DiscoverOnResponse(resp, authorities, _last_discovery_time, discovery_file, now)
         n == CHOOSE m \in DOMAIN probes[p] : TRUE
         e == ProbeAfterDiscovery(n, d) IN
     /\ Apply(d)
     /\ IF e # "none"
          THEN /\ Finish(p, ProbeReturned(p, n, call[p], call[p].http, [raised |-> e, result |-> NoBody], TRUE, d))
               /\ probes' = [probes EXCEPT ![p] = << >>]
          ELSE IF _http_client = "open"
          THEN /\ pc' = [pc EXCEPT ![p] = "ping_post_wait"]
               /\ call' = [call EXCEPT ![p].http = @ + 1]
               /\ ret' = NoRet
               /\ probes' = [probes EXCEPT ![p] = [m \in {n} |-> Task("inflight", NoAnswer, NoBody)]]
          ELSE /\ Finish(p, ProbeReturned(p, n, call[p], call[p].http, PingNoRequest(_http_client), TRUE, d))
               /\ probes' = [probes EXCEPT ![p] = << >>]
  /\ UNCHANGED <<_running, _http_client, now>>

\* The gateway answers the POST of ping_mesh_authority: the call returns the
\* result or raises.
ping_post_responds(p, resp) ==
  /\ pc[p] = "ping_post_wait"
  /\ LET n == CHOOSE m \in DOMAIN probes[p] : TRUE
         o == PingOnResponse(resp) IN
     /\ authorities' = AfterProbe(authorities, n, o)
     /\ Finish(p, ProbeReturned(p, n, call[p], call[p].http, o, FALSE, NoOutcome))
  /\ probes' = [probes EXCEPT ![p] = << >>]
  /\ UNCHANGED <<_running, _http_client, _last_discovery_time, discovery_file, now>>

\* ------------------------------------------------------------------------
\* Transfers: send_mesh_transfer
\* ------------------------------------------------------------------------

\* The answers to POST /authorities/{name}/transfer: a transport error
\* (timeout, connection reset) or an error status (5xx), or a JSON object
\* that reports success or failure.
TransferResponses == {[kind |-> "http_error", body |-> NoBody], [kind |-> "ok", body |-> [success |-> FALSE, error |-> "rejected"]], [kind |-> "ok", body |-> [success |-> TRUE, transfer_id |-> "t1"]]}

\* send_mesh_transfer from the answer to its POST on: the exception it
\* raises ("none": it returns `result`).  The code makes one POST; an error
\* is handed to the caller as it comes.
TransferOnResponse(resp) ==
  IF resp.kind = "http_error" THEN [raised |-> "HTTP error", result |-> NoBody]
  ELSE IF Get(resp.body, "success", FALSE) THEN [raised |-> "none", result |-> resp.body]
  ELSE [raised |-> "Communication error: Transfer failed", result |-> NoBody]

\* send_mesh_transfer when no request goes out: without a client it raises
\* at once; on a closed client the request raises RuntimeError
TransferNoRequest(http) == IF http = "none" THEN [raised |-> "Client not started", result |-> NoBody] ELSE [raised |-> "Communication error", result |-> NoBody]

\* send_mesh_transfer after the discovery it ran for a name that was not held
TransferAfterDiscovery(n, d) == IF d.raised # "none" THEN d.raised ELSE IF n \notin DOMAIN d.auths THEN "Authority not found" ELSE "none"

\* what send_mesh_transfer hands back; http counts the requests of the call
TransferReturned(p, n, frame, http, o, refreshed, d) == [Returned(p, "transfer", frame.cache, frame.client, http, o.raised, {}, refreshed, d) EXCEPT !.results = IF o.raised = "none" THEN [m \in {n} |-> o.result] ELSE << >>]

\* send_mesh_transfer(n, order), up to its first request
send_mesh_transfer(p, n) ==
  /\ pc[p] = "idle"
  /\ LET here == Frame(CacheAge(now, _last_discovery_time), _http_client, 0) IN
     IF _http_client = "none"
       THEN /\ Finish(p, TransferReturned(p, n, here, 0, TransferNoRequest(_http_client), FALSE, NoOutcome))
            /\ UNCHANGED <<clientVars, probes>>
     ELSE IF n \in DOMAIN authorities
       THEN IF _http_client = "open"
              THEN /\ Suspend(p, "transfer_post_wait", _http_client)
                   /\ probes' = [probes EXCEPT ![p] = [m \in {n} |-> Task("inflight", NoAnswer, NoBody)]]
                   /\ UNCHANGED clientVars
              ELSE /\ Finish(p, TransferReturned(p, n, here, 0, TransferNoRequest(_http_client), FALSE, NoOutcome))
                   /\ UNCHANGED <<clientVars, probes>>
     ELSE IF _http_client = "open"
       THEN /\ Suspend(p, "transfer_discover_wait", _http_client)
            /\ probes' = [probes EXCEPT ![p] = [m \in {n} |-> Task("created", NoAnswer, NoBody)]]
            /\ authorities' = BeforeGet(authorities)
            /\ UNCHANGED <<_running, _http_client, _last_discovery_time, discovery_file>>
     ELSE LET d == DiscoverNoRequest(_http_client, authorities, _last_discovery_time, discovery_file)
              e == TransferAfterDiscovery(n, d) IN
          /\ Apply(d)
          /\ Finish(p, TransferReturned(p, n, here, 0, IF e # "none" THEN [raised |-> e, result |-> NoBody] ELSE TransferNoRequest(_http_client), TRUE, d))
          /\ UNCHANGED <<_running, _http_client, probes>>
  /\ UNCHANGED now

\* The gateway answers the GET /authorities of the discovery inside
\* send_mesh_transfer.
transfer_discover_responds(p, resp) ==
  /\ pc[p] = "transfer_discover_wait"
  /\ LET d == DiscoverOnResponse(resp, authorities, _last_discovery_time, discovery_file, now)
         n == CHOOSE m \in DOMAIN probes[p] : TRUE
         e == TransferAfterDiscovery(n, d) IN
     /\ Apply(d)
     /\ IF e # "none"
          THEN /\ Finish(p, TransferReturned(p, n, call[p], call[p].http, [raised |-> e, result |-> NoBody], TRUE, d))
               /\ probes' = [probes EXCEPT ![p] = << >>]
          ELSE IF _http_client = "open"
          THEN /\ pc' = [pc EXCEPT ![p] = "transfer_post_wait"]
               /\ call' = [call EXCEPT ![p].http = @ + 1]
               /\ ret' = NoRet
               /\ probes' = [probes EXCEPT ![p] = [m \in {n} |-> Task("inflight", NoAnswer, NoBody)]]
          ELSE /\ Finish(p, TransferReturned(p, n, call[p], call[p].http, TransferNoRequest(_http_client), TRUE, d))
               /\ probes' = [probes EXCEPT ![p] = << >>]
  /\ UNCHANGED <<_running, _http_client, now>>

\* The gateway answers the POST of send_mesh_transfer: the call returns the
\* result or raises.
transfer_post_responds(p, resp) ==
  /\ pc[p] = "transfer_post_wait"
  /\ LET n == CHOOSE m \in DOMAIN probes[p] : TRUE IN
     Finish(p, TransferReturned(p, n, call[p], call[p].http, TransferOnResponse(resp), FALSE, NoOutcome))
  /\ probes' = [probes EXCEPT ![p] = << >>]
  /\ UNCHANGED <<clientVars, now>>

\* ------------------------------------------------------------------------
\* The gateway status: get_mesh_gateway_status
\* ------------------------------------------------------------------------

\* the answers to GET /health: a transport error or an error status, a body
\* that is no JSON, or a JSON object
StatusResponses == {"http_error", "bad_json", "ok"}

\* get_mesh_gateway_status from the answer to its GET on: the
\* MeshGatewayError it raises, or "none"
StatusOnResponse(resp) == IF resp = "http_error" THEN "Gateway unreachable" ELSE IF resp = "bad_json" THEN "Gateway error" ELSE "none"

\* get_mesh_gateway_status(), up to its GET: without a client it raises at
\* once; on a closed client the request raises RuntimeError
get_mesh_gateway_status(p) ==
  /\ pc[p] = "idle"
  /\ IF _http_client = "open"
       THEN Suspend(p, "status_wait", _http_client)
       ELSE Finish(p, Returned(p, "status", CacheAge(now, _last_discovery_time), _http_client, 0, IF _http_client = "none" THEN "Client not started" ELSE "Gateway error", {}, FALSE, NoOutcome))
  /\ UNCHANGED <<clientVars, now, probes>>

\* The gateway answers the GET /health.
status_responds(p, resp) ==
  /\ pc[p] = "status_wait"
  /\ Finish(p, Returned(p, "status", call[p].cache, call[p].client, call[p].http, StatusOnResponse(resp), {}, FALSE, NoOutcome))
  /\ UNCHANGED <<clientVars, now, probes>>

\* The class of the exception a gateway operation r ended with: each method
\* raises its own class (discover_mesh_authorities:
\* MeshAuthorityDiscoveryError, get_mesh_gateway_status: MeshGatewayError).
RaisedType(r) ==
  IF r.raised = "none" THEN "none"
  ELSE IF r.op = "discover" THEN "MeshAuthorityDiscoveryError"
  ELSE IF r.op = "status" THEN "MeshGatewayError"
  ELSE ExceptionType(r)

\* ------------------------------------------------------------------------
\* MeshClient (mesh_client.py): send_transfer and send_transfer_to_authority
\* ------------------------------------------------------------------------

\* JSON values of a transfer body: strings (as character sequences),
\* integers, floats (whole + tenths / 10, not negative) and null
Str(chars) == [type |-> "str", chars |-> chars]

IntValue(v) == [type |-> "int", v |-> v]

FloatValue(whole, tenths) == [type |-> "float", whole |-> whole, tenths |-> tenths]

NullValue == [type |-> "null"]

DigitChars == <<"0", "1", "2", "3", "4", "5", "6", "7", "8", "9">>

IsDigit(c) == \E i \in 1..Len(DigitChars) : DigitChars[i] = c

DigitValue(c) == (CHOOSE i \in 1..Len(DigitChars) : DigitChars[i] = c) - 1

\* the number a sequence of digits denotes
RECURSIVE ParseDigits(_, _)
ParseDigits(chars, acc) == IF chars = << >> THEN acc ELSE ParseDigits(Tail(chars), 10 * acc + DigitValue(Head(chars)))

\* int(x): an int is itself; a float is truncated; a string is parsed (an
\* optional sign, then digits) or raises ValueError; None raises TypeError
PyInt(x) ==
  IF x.type = "int" THEN [err |-> "none", val |-> x.v]
  ELSE IF x.type = "float" THEN [err |-> "none", val |-> x.whole]
  ELSE IF x.type = "null" THEN [err |-> "TypeError", val |-> 0]
  ELSE LET signed == x.chars # << >> /\ Head(x.chars) \in {"-", "+"}
           digits == IF signed THEN Tail(x.chars) ELSE x.chars
       IN  IF digits = << >> \/ \E i \in 1..Len(digits) : ~IsDigit(digits[i]) THEN [err |-> "ValueError", val |-> 0]
           ELSE [err |-> "none", val |-> IF signed /\ Head(x.chars) = "-" THEN 0 - ParseDigits(digits, 0) ELSE ParseDigits(digits, 0)]

\* bool(x) of a string or None
Truthy(x) == x.type = "str" /\ x.chars # << >>

\* str.startswith
StartsWith(chars, prefix) == Len(chars) >= Len(prefix) /\ SubSeq(chars, 1, Len(prefix)) = prefix

\* required_fields, in the order the loop reports them
RequiredFields == <<"sender", "recipient", "token_address", "amount">>

\* The checks of send_transfer / send_transfer_to_authority before the
\* request: the MeshClientError raised, or "none".
ValidateTransfer(body) ==
  IF \E i \in 1..Len(RequiredFields) : RequiredFields[i] \notin DOMAIN body THEN "Missing required field"
  ELSE IF PyInt(body["amount"]).err # "none" THEN "Amount must be a valid integer"
  ELSE IF PyInt(body["amount"]).val <= 0 THEN "Amount must be positive"
  ELSE IF ~Truthy(body["token_address"]) \/ ~StartsWith(body["token_address"].chars, <<"0", "x">>) THEN "Invalid token address format"
  ELSE "none"

\* values a caller may put under "amount" and under "token_address"
AmountValues == {IntValue(5), IntValue(0), IntValue(0 - 1), Str(<<"7">>), Str(<<"-", "3">>), Str(<<"a", "b">>), Str(<< >>), NullValue, FloatValue(1, 5), FloatValue(0, 5), FloatValue(2, 0)}

TokenValues == {Str(<<"0", "x", "A">>), Str(<<"A", "0", "x">>), Str(<<"0">>), Str(<< >>), NullValue}

\* the bodies a caller may hand over: any of the four fields may be missing
TransferBodies == { [f \in F |-> IF f = "amount" THEN a ELSE IF f = "token_address" THEN t ELSE Str(<<"u">>)] : F \in SUBSET {"sender", "recipient", "token_address", "amount"}, a \in AmountValues, t \in TokenValues }

\* a transfer call of the MeshClient: the method, its body, "post_wait"
\* (suspended in its POST) or "returned", the requests it issued and the
\* error it raised
TransferCall(fn, body, state, http, raised) == [fn |-> fn, body |-> body, state |-> state, http |-> http, raised |-> raised]

NoTransferCall == TransferCall("none", << >>, "none", 0, "none")

\* MeshClient.start
MeshClient_start ==
  /\ mesh_client.call.state # "post_wait"
  /\ mesh_client.disc.state # "wait"
  /\ mesh_client._http # "open"
  /\ mesh_client' = [mesh_client EXCEPT !._http = "open"]
  /\ UNCHANGED <<clientVars, now, pc, call, ret, probes, consecutive_failures, store_in, store_out, manager, bridge, reply>>

\* MeshClient.close: the client is closed, self._http keeps it
MeshClient_close ==
  /\ mesh_client.call.state # "post_wait"
  /\ mesh_client.disc.state # "wait"
  /\ mesh_client._http = "open"
  /\ mesh_client' = [mesh_client EXCEPT !._http = "closed"]
  /\ UNCHANGED <<clientVars, now, pc, call, ret, probes, consecutive_failures, store_in, store_out, manager, bridge, reply>>

\* send_transfer / send_transfer_to_authority up to the POST:
\* _require_client, the checks, then the request (a closed client raises
\* RuntimeError, which is wrapped).  One transfer call is followed.
TransferUpToPost(fn, body) ==
  /\ mesh_client.call.state = "none"
  /\ mesh_client' = [mesh_client EXCEPT !.call =
       IF mesh_client._http = "none" THEN TransferCall(fn, body, "returned", 0, "MeshClient not started")
       ELSE IF ValidateTransfer(body) # "none" THEN TransferCall(fn, body, "returned", 0, ValidateTransfer(body))
       ELSE IF mesh_client._http = "closed" THEN TransferCall(fn, body, "returned", 0, "Transfer failed")
       ELSE TransferCall(fn, body, "post_wait", 1, "none")]
  /\ UNCHANGED <<clientVars, now, pc, call, ret, probes, consecutive_failures, store_in, store_out, manager, bridge, reply>>

send_transfer(body) == TransferUpToPost("send_transfer", body)

send_transfer_to_authority(authority, body) == TransferUpToPost("send_transfer_to_authority", body)

\* The gateway answers the POST: the JSON is returned, or any exception is
\* wrapped into MeshClientError.
MeshClient_post_responds(ok) ==
  /\ mesh_client.call.state = "post_wait"
  /\ mesh_client' = [mesh_client EXCEPT !.call.state = "returned", !.call.raised = IF ok THEN "none" ELSE "Transfer failed"]
  /\ UNCHANGED <<clientVars, now, pc, call, ret, probes, consecutive_failures, store_in, store_out, manager, bridge, reply>>

\* ------------------------------------------------------------------------
\* MeshClient (mesh_client.py): discover
\* ------------------------------------------------------------------------

\* authority objects a gateway response may list: auth1 with two addresses,
\* auth2, and an object without a name
MeshEntries == {[name |-> "auth1", ip |-> "10.0.0.11"], [name |-> "auth1", ip |-> "10.0.0.21"], [name |-> "auth2", ip |-> "10.0.0.12"], [ip |-> "10.0.0.13"]}

\* the answers to the GET /authorities of discover: a transport error or an
\* error status, a body that is no JSON, a JSON value that is no object, or
\* a JSON object with the list under "authorities"
MeshResponses == {[kind |-> "http_error", list |-> << >>], [kind |-> "bad_json", list |-> << >>], [kind |-> "not_dict", list |-> << >>]} \cup { [kind |-> "ok", list |-> l] : l \in SeqsUpTo(MeshEntries, MaxResp) }

\* self._cache after the assignment of discover: {a["name"]: a for a in
\* list}; a later entry of the same name takes the place of an earlier one
RECURSIVE MergedByName(_, _)
MergedByName(cache, list) == IF list = << >> THEN cache ELSE LET a == Head(list) IN MergedByName([n \in DOMAIN cache \cup {a.name} |-> IF n = a.name THEN a ELSE cache[n]], Tail(list))

\* the cache updated with the listed authorities, those not listed kept
UpdatedByName(cache, list) == MergedByName(cache, list)

KeyedByName(cache, list) == MergedByName(<< >>, list)

\* a discover call: "wait" (suspended in its GET) or "returned", the force
\* flag, the cache when the call was made, the answer to its GET, the
\* requests it issued and the class of the exception it raised
DiscoverCall(state, force, before, resp, http, raised) == [state |-> state, force |-> force, before |-> before, resp |-> resp, http |-> http, raised |-> raised]

NoDiscoverCall == DiscoverCall("none", FALSE, << >>, [kind |-> "none", list |-> << >>], 0, "none")

\* discover(force), up to its GET: a filled cache is returned unless force
\* is set; _require_client raises without a client; on a closed client the
\* request raises RuntimeError inside the try
MeshClient_discover(force) ==
  /\ mesh_client.disc.state # "wait"
  /\ mesh_client' = [mesh_client EXCEPT !.disc =
       IF mesh_client._cache # << >> /\ ~force THEN DiscoverCall("returned", force, mesh_client._cache, NoDiscoverCall.resp, 0, "none")
       ELSE IF mesh_client._http = "none" THEN DiscoverCall("returned", force, mesh_client._cache, NoDiscoverCall.resp, 0, "MeshClientError")
       ELSE IF mesh_client._http = "closed" THEN DiscoverCall("returned", force, mesh_client._cache, NoDiscoverCall.resp, 0, "MeshClientError")
       ELSE DiscoverCall("wait", force, mesh_client._cache, NoDiscoverCall.resp, 1, "none")]
  /\ UNCHANGED <<clientVars, now, pc, call, ret, probes, consecutive_failures, store_in, store_out, manager, bridge, reply>>

\* The class of the exception discover raises once its GET is answered:
\* what the request, raise_for_status and json() raise is wrapped; data.get
\* on a JSON value that is no object and a["name"] on an object without a
\* name raise outside the try
DiscoverRaises(resp) ==
  IF resp.kind \in {"http_error", "bad_json"} THEN "MeshClientError"
  ELSE IF resp.kind = "not_dict" THEN "AttributeError"
  ELSE IF \E i \in 1..Len(resp.list) : "name" \notin DOMAIN resp.list[i] THEN "KeyError"
  ELSE "none"

\* The gateway answers the GET /authorities of discover.
MeshClient_discover_responds(resp) ==
  /\ mesh_client.disc.state = "wait"
  /\ mesh_client' = [mesh_client EXCEPT !.disc.state = "returned", !.disc.resp = resp, !.disc.raised = DiscoverRaises(resp), !._cache = IF DiscoverRaises(resp) = "none" THEN KeyedByName(@, resp.list) ELSE @]
  /\ UNCHANGED <<clientVars, now, pc, call, ret, probes, consecutive_failures, store_in, store_out, manager, bridge, reply>>

\* ------------------------------------------------------------------------
\* ConnectionManager (websocket.py)
\* ------------------------------------------------------------------------

\* the websockets that may connect
WebSockets == {"ws1", "ws2", "ws3"}

\* list.remove(x): the list without the first element equal to x
RECURSIVE Remove(_, _)
Remove(list, x) == IF list = << >> THEN << >> ELSE IF Head(list) = x THEN Tail(list) ELSE <<Head(list)>> \o Remove(Tail(list), x)

\* a broadcast: "sending" (suspended in a send_text), "ended" or "raised";
\* next is the position of the list iterator, connection the loop
\* variable; initial, attempted, sent and interleaved record the list when
\* the broadcast began, the connections a send was tried on, those whose
\* send succeeded, and whether a connect or disconnect ran meanwhile
Broadcast(state, next, connection, initial, attempted, sent, interleaved) == [state |-> state, next |-> next, connection |-> connection, initial |-> initial, attempted |-> attempted, sent |-> sent, interleaved |-> interleaved]

NoBroadcast == Broadcast("none", 0, "none", << >>, {}, {}, FALSE)

\* The for statement asks the list iterator for its next element: the
\* element at position next of the list as it is now, or the end of the loop.
NextConnection(b, list) ==
  IF b.next < Len(list) THEN [b EXCEPT !.state = "sending", !.next = @ + 1, !.connection = list[b.next + 1]]
  ELSE [b EXCEPT !.state = "ended", !.connection = "none"]

\* connect: accept, then append
connect(websocket) ==
  /\ websocket \notin SeqToSet(manager.active_connections)
  /\ manager' = [manager EXCEPT !.active_connections = Append(@, websocket), !.broadcast.interleaved = @ \/ manager.broadcast.state = "sending"]
  /\ UNCHANGED <<clientVars, now, pc, call, ret, probes, consecutive_failures, store_in, store_out, mesh_client, bridge, reply>>

\* disconnect of a connection that is in the list
disconnect(websocket) ==
  /\ websocket \in SeqToSet(manager.active_connections)
  /\ manager' = [manager EXCEPT !.active_connections = Remove(@, websocket), !.broadcast.interleaved = @ \/ manager.broadcast.state = "sending"]
  /\ UNCHANGED <<clientVars, now, pc, call, ret, probes, consecutive_failures, store_in, store_out, mesh_client, bridge, reply>>

\* broadcast, up to its first send_text
broadcast ==
  /\ manager.broadcast.state # "sending"
  /\ manager' = [manager EXCEPT !.broadcast = NextConnection(Broadcast("none", 0, "none", manager.active_connections, {}, {}, FALSE), manager.active_connections)]
  /\ UNCHANGED <<clientVars, now, pc, call, ret, probes, consecutive_failures, store_in, store_out, mesh_client, bridge, reply>>

\* A send_text of the broadcast ends: a failed one removes the connection
\* from the list that the loop iterates over (ValueError when a disconnect
\* has removed it meanwhile); then the loop goes on to its next send.
send_text_ends(ok) ==
  /\ manager.broadcast.state = "sending"
  /\ LET b == manager.broadcast
         c == b.connection
         tried == [b EXCEPT !.attempted = @ \cup {c}, !.sent = IF ok THEN @ \cup {c} ELSE @]
     IN  IF ok THEN manager' = [manager EXCEPT !.broadcast = NextConnection(tried, manager.active_connections)]
         ELSE IF c \notin SeqToSet(manager.active_connections) THEN manager' = [manager EXCEPT !.broadcast = [tried EXCEPT !.state = "raised"]]
         ELSE manager' = [manager EXCEPT !.active_connections = Remove(@, c), !.broadcast = NextConnection(tried, Remove(manager.active_connections, c))]
  /\ UNCHANGED <<clientVars, now, pc, call, ret, probes, consecutive_failures, store_in, store_out, mesh_client, bridge, reply>>

\* ------------------------------------------------------------------------
\* MeshInternetBridge (mesh_internet_bridge.py)
\* ------------------------------------------------------------------------

\* what a bridge call or request produced: the call, its input, the class
\* of the exception that left it, the HTTP responses written, the status
\* code and JSON body of the response, whether client.transfer was invoked,
\* and whether a registration ran while the response was being built
Reply(op, input, raised, responses, code, body, invoked, raced) == [op |-> op, input |-> input, raised |-> raised, responses |-> responses, code |-> code, body |-> body, invoked |-> invoked, raced |-> raced]

NoReply == Reply("none", "none", "none", 0, 0, << >>, FALSE, FALSE)

\* the registrations followed in one run
MaxRegs == 3

\* start(): nothing when running; socketserver.TCPServer(("", port), ...)
\* binds ("ok"), or raises OSError (the port is taken) or OverflowError
\* (the port is out of range) before self.server is assigned
bridge_start(bind) ==
  /\ IF bridge.running THEN bridge' = bridge /\ reply' = Reply("start", bind, "none", 0, 0, << >>, FALSE, FALSE)
     ELSE IF bind # "ok" THEN bridge' = bridge /\ reply' = Reply("start", bind, IF bind = "in_use" THEN "OSError" ELSE "OverflowError", 0, 0, << >>, FALSE, FALSE)
     ELSE bridge' = [bridge EXCEPT !.server = "bound", !.server_thread = "started", !.running = TRUE] /\ reply' = Reply("start", bind, "none", 0, 0, << >>, FALSE, FALSE)
  /\ UNCHANGED <<clientVars, now, pc, call, ret, probes, consecutive_failures, store_in, store_out, mesh_client, manager>>

\* the bridge after a stop of a running bridge, with the server closed but
\* still referenced
AfterStopServerKept(b) == [b EXCEPT !.running = FALSE, !.server_thread = "none"]

\* the bridge after a stop of a running bridge
AfterStop(b) == [b EXCEPT !.running = FALSE, !.server = "none", !.server_thread = "none"]

\* stop(): nothing unless running with a server; shutdown() waits for the
\* request that is being handled
bridge_stop ==
  /\ bridge.handler.state = "idle"
  /\ bridge' = IF ~bridge.running \/ bridge.server = "none" THEN bridge ELSE AfterStop(bridge)
  /\ reply' = Reply("stop", "none", "none", 0, 0, << >>, FALSE, FALSE)
  /\ UNCHANGED <<clientVars, now, pc, call, ret, probes, consecutive_failures, store_in, store_out, mesh_client, manager>>

\* the authorities that register: auth1 with two addresses, and auth2
BridgeAuthorities == {[name |-> "auth1", ip |-> "10.0.0.11"], [name |-> "auth1", ip |-> "10.0.0.21"], [name |-> "auth2", ip |-> "10.0.0.12"]}

\* self.authorities with every registration appended
RegisteredAppended(auths, a) == Append(auths, a)

\* self.authorities[authority.name] = {...} on a dict, kept as the list of
\* its values in insertion order: an entry of that name is replaced where
\* it stands, a new name is appended
Registered(auths, a) ==
  IF \E i \in 1..Len(auths) : auths[i].name = a.name THEN [i \in 1..Len(auths) |-> IF auths[i].name = a.name THEN a ELSE auths[i]]
  ELSE Append(auths, a)

\* register_authority, called by the thread that owns the bridge while the
\* server thread may be building a response
register_authority(a) ==
  /\ Len(bridge.registered) < MaxRegs
  /\ bridge' = [bridge EXCEPT !.authorities = Registered(@, a), !.registered = Append(@, a), !.handler.raced = @ \/ bridge.handler.state = "listed"]
  /\ reply' = Reply("register", a, "none", 0, 0, << >>, FALSE, FALSE)
  /\ UNCHANGED <<clientVars, now, pc, call, ret, probes, consecutive_failures, store_in, store_out, mesh_client, manager>>

NoHandler == [state |-> "idle", list |-> << >>, raced |-> FALSE]

\* do_GET: /health and unknown paths are answered at once; for /authorities
\* the handler first evaluates list(self.bridge.authorities.values())
do_GET(path) ==
  /\ bridge.running
  /\ bridge.handler.state = "idle"
  /\ IF path = "/health" THEN bridge' = bridge /\ reply' = Reply("GET", path, "none", 1, 200, [status |-> "healthy", authorities_count |-> Len(bridge.authorities)], FALSE, FALSE)
     ELSE IF path = "/authorities" THEN bridge' = [bridge EXCEPT !.handler = [state |-> "listed", list |-> bridge.authorities, raced |-> FALSE]] /\ reply' = Reply("GET", path, "none", 0, 0, << >>, FALSE, FALSE)
     ELSE bridge' = bridge /\ reply' = Reply("GET", path, "none", 1, 404, [error |-> "not found"], FALSE, FALSE)
  /\ UNCHANGED <<clientVars, now, pc, call, ret, probes, consecutive_failures, store_in, store_out, mesh_client, manager>>

\* do_GET of /authorities, from len(self.bridge.authorities) to the
\* response
do_GET_responds ==
  /\ bridge.handler.state = "listed"
  /\ bridge' = [bridge EXCEPT !.handler = NoHandler]
  /\ reply' = Reply("GET", "/authorities", "none", 1, 200, [authorities |-> bridge.handler.list, count |-> Len(bridge.authorities)], FALSE, bridge.handler.raced)
  /\ UNCHANGED <<clientVars, now, pc, call, ret, probes, consecutive_failures, store_in, store_out, mesh_client, manager>>

\* a JSON array as a value
ListValue == [type |-> "list"]

\* the names of clients_map
BridgeClients == {<<"u", "1">>}

\* int(amount) of the bridge: as PyInt, and TypeError for an array
BridgeInt(x) == IF x.type = "list" THEN [err |-> "TypeError", val |-> 0] ELSE PyInt(x)

\* body.get(k)
BodyGet(fields, k) == IF k \in DOMAIN fields THEN fields[k] ELSE NullValue

\* what json.loads makes of the request body: it raises, or yields a value
\* that is no object, or an object with any of the three fields
PostBodies == {[json |-> "invalid", fields |-> << >>], [json |-> "list", fields |-> << >>]} \cup { [json |-> "object", fields |-> [f \in F |-> IF f = "sender" THEN s ELSE IF f = "amount" THEN a ELSE Str(<<"u", "2">>)]] : F \in SUBSET {"sender", "recipient", "amount"}, s \in {NullValue, Str(<<"u", "1">>), Str(<<"u", "9">>), ListValue}, a \in {NullValue, IntValue(5), Str(<<"7">>), Str(<<"a", "b">>), FloatValue(1, 5), ListValue} }

\* _transfer_via_client: the exception that leaves it, the dict it returns
\* and whether client.transfer was invoked. body.get raises AttributeError
\* on a value that is no object, clients_map.get raises TypeError on an
\* unhashable sender. client.transfer returns True ("ok") or False
\* ("refused"), or raises.
_transfer_via_client(body, outcome) ==
  IF body.json # "object" THEN [raised |-> "AttributeError", result |-> << >>, invoked |-> FALSE]
  ELSE LET sender == BodyGet(body.fields, "sender")
           recipient == BodyGet(body.fields, "recipient")
           amount == BodyGet(body.fields, "amount")
       IN  IF sender = NullValue \/ recipient = NullValue \/ amount = NullValue THEN [raised |-> "none", result |-> [success |-> FALSE, error |-> "missing_fields"], invoked |-> FALSE]
           ELSE IF BridgeInt(amount).err # "none" THEN [raised |-> "none", result |-> [success |-> FALSE, error |-> "amount_not_int"], invoked |-> FALSE]
           ELSE IF sender.type = "list" THEN [raised |-> "TypeError", result |-> << >>, invoked |-> FALSE]
           ELSE IF sender.type # "str" \/ sender.chars \notin BridgeClients THEN [raised |-> "none", result |-> [success |-> FALSE, error |-> "sender_not_found"], invoked |-> FALSE]
           ELSE IF outcome = "ok" THEN [raised |-> "none", result |-> [success |-> TRUE, error |-> "none"], invoked |-> TRUE]
           ELSE IF outcome = "refused" THEN [raised |-> "none", result |-> [success |-> FALSE, error |-> "none"], invoked |-> TRUE]
           ELSE [raised |-> "none", result |-> [success |-> FALSE, error |-> "exception"], invoked |-> TRUE]

\* do_POST: only a path whose one part is "transfer" is handled; a body
\* that json.loads rejects is answered with 400; an exception that leaves
\* _transfer_via_client leaves the handler before any response is written
do_POST(path, body, outcome) ==
  /\ bridge.running
  /\ bridge.handler.state = "idle"
  /\ bridge' = bridge
  /\ reply' = IF path \notin {"/transfer", "/transfer/"} THEN Reply("POST", [path |-> path, body |-> body], "none", 0, 0, << >>, FALSE, FALSE)
              ELSE IF body.json = "invalid" THEN Reply("POST", [path |-> path, body |-> body], "none", 1, 400, [success |-> FALSE, error |-> "invalid_json"], FALSE, FALSE)
              ELSE LET t == _transfer_via_client(body, outcome)
                   IN  IF t.raised # "none" THEN Reply("POST", [path |-> path, body |-> body], t.raised, 0, 0, << >>, FALSE, FALSE)
                       ELSE Reply("POST", [path |-> path, body |-> body], "none", 1, IF t.result.success THEN 200 ELSE 400, t.result, t.invoked, FALSE)
  /\ UNCHANGED <<clientVars, now, pc, call, ret, probes, consecutive_failures, store_in, store_out, mesh_client, manager>>

\* ------------------------------------------------------------------------
\* The fallback store called on its own, and the count of failed dispatches
\* ------------------------------------------------------------------------

\* records a caller may hand to _save_discovery_file: three built with a
\* status argument and one built without
StorePool == { AuthorityInfo("auth1", "10.0.0.11", 8001, Pos(45, 40, 0), "online", {"auth2"}), AuthorityInfo("auth2", "10.0.0.12", 8002, Pos(70, 40, 0), "syncing", {"auth1", "auth3"}), MockAuthority("auth3"), AuthorityInfo("auth4", "10.0.0.14", 8004, Pos(120, 40, 0), DefaultStatus, {"auth1"}) }

StoreLists == SeqsUpTo(StorePool, MaxList)

\* authority objects a discovery file may hold, whatever wrote it
StoreFilePool == { AuthData("auth1", "10.0.0.11", 8001, Pos(45, 40, 0), "online", <<"auth2">>), AuthData("auth2", "10.0.0.12", 8002, Pos(70, 40, 0), "unknown", <<"auth1", "auth3">>), AuthData("auth3", "10.0.0.13", 8003, Pos(95, 40, 0), "offline", << >>) }

StoreFiles == {NoFile} \cup { FileOf(l) : l \in SeqsUpTo(StoreFilePool, MaxList) }

\* no save or load was made; else the list handed over or returned (ok is
\* FALSE when the load returned None)
NoStore == [done |-> FALSE, ok |-> FALSE, list |-> << >>]

Stored(ok, list) == [done |-> TRUE, ok |-> ok, list |-> list]

\* await self._save_discovery_file(list)
save_discovery_file(list) ==
  /\ discovery_file' = _save_discovery_file(list, discovery_file, now)
  /\ store_in' = Stored(TRUE, list)
  /\ store_out' = NoStore
  /\ UNCHANGED <<authorities, _running, _http_client, _last_discovery_time, now, pc, call, ret, probes, consecutive_failures, mesh_client, manager, bridge, reply>>

\* await self._load_discovery_file()
load_discovery_file ==
  /\ LET l == _load_discovery_file(discovery_file, authorities) IN
     /\ authorities' = l.auths
     /\ store_out' = Stored(l.ok, l.list)
  /\ UNCHANGED <<_running, _http_client, _last_discovery_time, discovery_file, now, pc, call, ret, probes, consecutive_failures, store_in, mesh_client, manager, bridge, reply>>

\* circuit_breaker_config.failure_threshold, as the validation script sets it
FailureThreshold == 3

\* gateway_responds, observed: the dispatches that failed in a row (a
\* transport error or an error status), counted up to the threshold
gateway_responds_counted(p, resp) ==
  /\ gateway_responds(p, resp)
  /\ consecutive_failures' = IF resp.kind # "http_error" THEN 0 ELSE IF consecutive_failures < FailureThreshold THEN consecutive_failures + 1 ELSE consecutive_failures
  /\ UNCHANGED <<store_in, store_out, mesh_client, manager, bridge, reply>>

\* the client after __init__; the discovery file is one of `files`
InitWith(files) ==
  /\ authorities = << >>
  /\ _running = FALSE
  /\ _http_client = "none"
  /\ _last_discovery_time = 0
  /\ discovery_file \in files
  /\ now = StartTime
  /\ pc = [p \in Callers |-> "idle"]
  /\ call = [p \in Callers |-> NoFrame]
  /\ ret = NoRet
  /\ probes = [p \in Callers |-> << >>]
  /\ consecutive_failures = 0
  /\ store_in = NoStore
  /\ store_out = NoStore
  /\ mesh_client = [_http |-> "none", call |-> NoTransferCall, _cache |-> << >>, disc |-> NoDiscoverCall]
  /\ manager = [active_connections |-> << >>, broadcast |-> NoBroadcast]
  /\ bridge = [running |-> FALSE, server |-> "none", server_thread |-> "none", authorities |-> << >>, registered |-> << >>, handler |-> NoHandler]
  /\ reply = NoReply

\* the discovery file is whatever an earlier run left
Init == InitWith(InitFiles)

\* the discovery file is whatever any writer left
InitStore == InitWith(StoreFiles)

otherVars == <<consecutive_failures, store_in, store_out, mesh_client, manager, bridge, reply>>

Next ==
  \/ Tick /\ UNCHANGED otherVars
  \/ start(Owner) /\ UNCHANGED otherVars
  \/ stop(Owner) /\ UNCHANGED otherVars
  \/ stop_closed(Owner) /\ UNCHANGED otherVars
  \/ \E p \in Handlers : discover_mesh_authorities(p) /\ UNCHANGED otherVars
  \/ \E p \in Callers : get_authorities(p) /\ UNCHANGED otherVars
  \/ \E p \in Callers, resp \in Responses : gateway_responds(p, resp) /\ UNCHANGED otherVars

Spec == Init /\ [][Next]_vars

\* One caller that starts and stops the client and calls the ping-all
\* endpoint (no time passes).
NextPing ==
  \/ start(Owner) /\ UNCHANGED otherVars
  \/ stop(Owner) /\ UNCHANGED otherVars
  \/ stop_closed(Owner) /\ UNCHANGED otherVars
  \/ \E resp \in Responses : gateway_responds(Owner, resp) /\ UNCHANGED otherVars
  \/ ping_all_authorities(Owner) /\ UNCHANGED otherVars
  \/ \E resp \in Responses : ping_gateway_responds(Owner, resp) /\ UNCHANGED otherVars
  \/ ping_tasks_start(Owner) /\ UNCHANGED otherVars
  \/ \E n \in MockNames, resp \in PingResponses : probe_responds(Owner, n, resp) /\ UNCHANGED otherVars
  \/ ping_all_returns(Owner) /\ UNCHANGED otherVars
  \/ \E n \in ProbeNames : ping_mesh_authority(Owner, n) /\ UNCHANGED otherVars
  \/ \E resp \in Responses : ping_discover_responds(Owner, resp) /\ UNCHANGED otherVars
  \/ \E resp \in PingResponses : ping_post_responds(Owner, resp) /\ UNCHANGED otherVars

SpecPing == Init /\ [][NextPing]_vars

\* One caller that starts and stops the client and calls the gateway
\* operations: transfers, single pings, forced discoveries and the gateway
\* status (no time passes).
NextTransfer ==
  \/ start(Owner) /\ UNCHANGED otherVars
  \/ stop(Owner) /\ UNCHANGED otherVars
  \/ stop_closed(Owner) /\ UNCHANGED otherVars
  \/ \E resp \in Responses : gateway_responds(Owner, resp) /\ UNCHANGED otherVars
  \/ \E n \in ProbeNames : send_mesh_transfer(Owner, n) /\ UNCHANGED otherVars
  \/ \E resp \in Responses : transfer_discover_responds(Owner, resp) /\ UNCHANGED otherVars
  \/ \E resp \in TransferResponses : transfer_post_responds(Owner, resp) /\ UNCHANGED otherVars
  \/ \E n \in ProbeNames : ping_mesh_authority(Owner, n) /\ UNCHANGED otherVars
  \/ \E resp \in Responses : ping_discover_responds(Owner, resp) /\ UNCHANGED otherVars
  \/ \E resp \in PingResponses : ping_post_responds(Owner, resp) /\ UNCHANGED otherVars
  \/ discover_mesh_authorities(Owner) /\ UNCHANGED otherVars
  \/ get_mesh_gateway_status(Owner) /\ UNCHANGED otherVars
  \/ \E resp \in StatusResponses : status_responds(Owner, resp) /\ UNCHANGED otherVars

SpecTransfer == Init /\ [][NextTransfer]_vars

\* The MeshClient is started and closed and transfers are sent through it.
NextValidate ==
  \/ MeshClient_start
  \/ MeshClient_close
  \/ \E body \in TransferBodies : send_transfer(body)
  \/ \E body \in TransferBodies : send_transfer_to_authority("auth1", body)
  \/ \E ok \in BOOLEAN : MeshClient_post_responds(ok)

SpecValidate == Init /\ [][NextValidate]_vars

\* The MeshClient is started and closed and its authorities are discovered.
NextMeshDiscover ==
  \/ MeshClient_start
  \/ MeshClient_close
  \/ \E force \in BOOLEAN : MeshClient_discover(force)
  \/ \E resp \in MeshResponses : MeshClient_discover_responds(resp)

SpecMeshDiscover == Init /\ [][NextMeshDiscover]_vars

\* Websockets connect and disconnect while messages are broadcast.
NextBroadcast ==
  \/ \E websocket \in WebSockets : connect(websocket)
  \/ \E websocket \in WebSockets : disconnect(websocket)
  \/ broadcast
  \/ \E ok \in BOOLEAN : send_text_ends(ok)

SpecBroadcast == Init /\ [][NextBroadcast]_vars

\* The bridge is started and stopped, authorities register and GET
\* requests are handled.
NextBridge ==
  \/ \E bind \in {"ok", "in_use", "out_of_range"} : bridge_start(bind)
  \/ bridge_stop
  \/ \E a \in BridgeAuthorities : register_authority(a)
  \/ \E path \in {"/health", "/authorities", "/other"} : do_GET(path)
  \/ do_GET_responds

SpecBridge == Init /\ [][NextBridge]_vars

\* The bridge is started and stopped and POST requests are handled.
NextBridgePost ==
  \/ \E bind \in {"ok", "in_use", "out_of_range"} : bridge_start(bind)
  \/ bridge_stop
  \/ \E path \in {"/transfer", "/transfer/", "/authorities/auth1/ping"}, body \in PostBodies, outcome \in {"ok", "refused", "raises"} : do_POST(path, body, outcome)

SpecBridgePost == Init /\ [][NextBridgePost]_vars

\* The callers discover and read while the dispatch failures are counted
\* (no time passes).
NextBreaker ==
  \/ start(Owner) /\ UNCHANGED otherVars
  \/ \E p \in Handlers : discover_mesh_authorities(p) /\ UNCHANGED otherVars
  \/ \E p \in Callers : get_authorities(p) /\ UNCHANGED otherVars
  \/ \E p \in Callers, resp \in Responses : gateway_responds_counted(p, resp)

SpecBreaker == Init /\ [][NextBreaker]_vars

\* The fallback store called on its own: lists are saved and the file is
\* loaded.
NextStore ==
  \/ \E list \in StoreLists : save_discovery_file(list)
  \/ load_discovery_file

SpecStore == InitStore /\ [][NextStore]_vars

\* ------------------------------------------------------------------------
\* Claims about the discovery cache (under Spec)
\* ------------------------------------------------------------------------

\* C1: a get_authorities() call made while the cache is fresh (a discovery
\* succeeded at time t and now - t < the cache duration) returns the held
\* records, does not raise and issues no HTTP request.
C1_FreshCacheNoRequest ==
  (ret.op = "get_authorities" /\ ret.cache = "fresh")
    => (ret.http = 0 /\ ~ret.refreshed /\ ret.raised = "none" /\ ret.result = Values(authorities))

\* a get_authorities() call has just returned from a fresh cache that a
\* successful discovery filled
C1_Witness ==
  /\ ret.op = "get_authorities"
  /\ ret.cache = "fresh"
  /\ _last_discovery_time > 0
  /\ now - _last_discovery_time < DiscoveryCacheDuration
  /\ authorities # << >>

\* C2 as stated, for a started client: a get_authorities() call made when no
\* discovery succeeded yet or when now - captured_at >= the cache duration
\* (the boundary included) issues exactly one GET /authorities.
C2_RefreshAtOrAfterTTL ==
  (ret.op = "get_authorities" /\ ret.client = "open" /\ ret.cache \in {"boundary", "stale"}) => ret.http = 1

\* C3: a get_authorities() call whose refresh fails while records are held
\* does not raise and returns the records that were held.
C3_StaleOnFailure ==
  [][(ret'.op = "get_authorities" /\ ret'.refreshed /\ ~ret'.live /\ authorities # << >>)
       => (ret'.raised = "none" /\ ret'.result = Values(authorities))]_vars

\* the discovery file yields no records
FallbackEmpty(file) == ~file.exists \/ file.data = << >>

\* C4, for a started client: when the live discovery fails, nothing is held
\* and the discovery file holds records, the file is consulted;
\* discover_mesh_authorities raises exactly when the live discovery failed,
\* nothing is held and the file yields no records.
C4_ErrorOnlyAfterFullChain ==
  [][(ret'.op = "discover" /\ ret'.client = "open") =>
       /\ (~ret'.live /\ authorities = << >> /\ ~FallbackEmpty(discovery_file)) => ret'.consulted
       /\ (ret'.raised # "none") <=> (~ret'.live /\ authorities = << >> /\ FallbackEmpty(discovery_file))]_vars

\* the callers whose refresh (forced, or by expiry in get_authorities) is
\* suspended in its GET /authorities
Refreshing == { p \in Callers : pc[p] \in {"discover_wait", "get_wait"} }

\* C6: refreshes triggered while one is in flight share it: the GET
\* /authorities of at most one refresh is in flight at any time.
C6_OneRefreshInFlight == Cardinality(Refreshing) <= 1

\* ------------------------------------------------------------------------
\* Claim about the gateway breaker (under SpecBreaker)
\* ------------------------------------------------------------------------

\* C5: once FailureThreshold dispatches in a row have failed the breaker is
\* open, and no further gateway call (a forced refresh, or the refresh of
\* get_authorities) issues an HTTP request.
C5_OpenBreakerNoRequest ==
  [][consecutive_failures >= FailureThreshold
       => \A p \in Callers : pc[p] = "idle" => pc'[p] \notin {"discover_wait", "get_wait"}]_vars

\* ------------------------------------------------------------------------
\* Claims about ping-all (under SpecPing)
\* ------------------------------------------------------------------------

\* the tasks whose POST the gateway answered with a success
Succeeded(tasks) == { n \in DOMAIN tasks : tasks[n].answer.kind = "ok" /\ Get(tasks[n].answer.body, "success", FALSE) }

\* the latencies of those answers, summed
SucceededLatency(tasks) == Sum([n \in Succeeded(tasks) |-> Get(tasks[n].answer.body, "latency_ms", 0)], Succeeded(tasks))

\* C7: ping-all returns only when every task is done, does not raise, and
\* its results hold exactly one entry per held authority, with success
\* false for every authority whose probe failed and success true for the
\* others.
C7_OneEntryPerAuthority ==
  [][ret'.op = "ping_all" =>
       LET tasks == probes[ret'.who] IN
       /\ ret'.raised = "none"
       /\ \A n \in DOMAIN tasks : tasks[n].state = "done"
       /\ DOMAIN ret'.results = DOMAIN tasks
       /\ DOMAIN ret'.results = DOMAIN authorities'
       /\ \A n \in DOMAIN ret'.results : ret'.results[n].success = (n \in Succeeded(tasks))]_vars

\* a ping-all has just returned with failed and successful probes side by
\* side
C7_Witness ==
  /\ ret.op = "ping_all"
  /\ \E n \in DOMAIN ret.results : ~ret.results[n].success
  /\ \E n \in DOMAIN ret.results : ret.results[n].success

\* C8 as stated: over K probes of which M fail the summary reports total K,
\* successful K - M, failed M, success rate (K - M) / K (0 when K = 0) and
\* exactly the sum of the successful latencies divided by K - M as the
\* average (0 when none succeeds).
C8_SummaryExactAverage ==
  [][ret'.op = "ping_all" =>
       LET tasks == probes[ret'.who]
           K == Cardinality(DOMAIN tasks)
           M == K - Cardinality(Succeeded(tasks))
           s == ret'.summary
       IN  /\ s.total_authorities = K
           /\ s.successful_pings = K - M
           /\ s.failed_pings = M
           /\ s.success_rate.num * (IF K = 0 THEN 1 ELSE K) = (K - M) * s.success_rate.den
           /\ s.average_latency_ms_x100 * (K - M) = 100 * SucceededLatency(tasks)]_vars

\* C8 amended: the counts and the success rate are as stated, and the
\* average is the sum of the successful latencies divided by K - M, rounded
\* to two decimals (within half a hundredth of the quotient); 0 when none
\* succeeds.
C8_SummaryRoundedAverage ==
  [][ret'.op = "ping_all" =>
       LET tasks == probes[ret'.who]
           K == Cardinality(DOMAIN tasks)
           M == K - Cardinality(Succeeded(tasks))
           s == ret'.summary
           diff == s.average_latency_ms_x100 * (K - M) - 100 * SucceededLatency(tasks)
       IN  /\ s.total_authorities = K
           /\ s.successful_pings = K - M
           /\ s.failed_pings = M
           /\ s.success_rate.num * (IF K = 0 THEN 1 ELSE K) = (K - M) * s.success_rate.den
           /\ 2 * diff <= K - M
           /\ 2 * diff >= M - K
           /\ (K = M) => s.average_latency_ms_x100 = 0]_vars

\* a ping-all over five authorities has just returned, two probes failed
\* and the three successful latencies do not average to a whole hundredth
C8_Witness ==
  /\ ret.op = "ping_all"
  /\ ret.summary.total_authorities = 5
  /\ ret.summary.failed_pings = 2
  /\ ret.summary.average_latency_ms_x100 = 1033

\* ------------------------------------------------------------------------
\* Claims about the fallback store (under SpecStore)
\* ------------------------------------------------------------------------

Kept(a) == [name |-> a.name, ip |-> a.address.ip_address, port |-> a.address.port, position |-> a.position, committee_members |-> a.committee_members]

\* C10: a load that follows a save returns records with the names handed to
\* the save and, per name, the same address, position and committee
\* members.
C10_RoundTrip ==
  (store_in.done /\ store_out.done)
    => (store_out.ok /\ { Kept(store_out.list[i]) : i \in 1..Len(store_out.list) } = { Kept(store_in.list[i]) : i \in 1..Len(store_in.list) })

\* ------------------------------------------------------------------------
\* Claims about what a discovery writes and holds (under Spec)
\* ------------------------------------------------------------------------

\* the fields of a discovery file entry that are compared with a record
FileKept(e) == [name |-> e.name, ip |-> e.ip, port |-> e.port, position |-> e.position, committee_members |-> SeqToSet(e.committee_members)]

\* C11: when discover_mesh_authorities returns the result of a successful
\* live discovery, the discovery file exists and holds exactly the records
\* of that discovery (same names, addresses, positions and committee
\* members).
C11_SnapshotWrittenBeforeReturn ==
  (ret.op = "discover" /\ ret.live)
    => (discovery_file.exists /\ { FileKept(discovery_file.data[i]) : i \in 1..Len(discovery_file.data) } = { Kept(a) : a \in ret.result })

\* C12: after a successful discovery the held authority set is exactly the
\* set of records that discovery produced; a record held before and absent
\* from the new response is held no longer.
C12_SnapshotSuperseded ==
  (ret.op = "discover" /\ ret.live) => Values(authorities) = ret.result

\* C14: the held records change only in a step that completes a successful
\* live discovery; no failed discovery, start-up path or fallback path adds
\* or replaces a held record.
C14_OnlySuccessfulDiscoveryWrites ==
  [][authorities' # authorities => (ret'.refreshed /\ ret'.live)]_vars

\* C20: a refresh that fails (forced, or made by get_authorities) leaves the
\* held records as they were, with every field value, status included.
C20_FailedRefreshKeepsRecords ==
  [][(ret'.op \in {"discover", "get_authorities"} /\ ret'.refreshed /\ ~ret'.live /\ ret'.client = "open")
       => authorities' = authorities]_vars

\* ------------------------------------------------------------------------
\* Claim about shutdown (under Spec)
\* ------------------------------------------------------------------------

\* the callers whose call is suspended in an HTTP request
InFlight == { p \in Callers : pc[p] \in {"start_wait", "discover_wait", "get_wait"} }

\* C19: the client shows itself stopped (_running is false) only once the
\* close of its HTTP client has completed, and then no dispatched call is
\* still in flight.
C19_StoppedOnlyAfterClose ==
  ~_running => (\A p \in Callers : pc[p] # "close_wait") /\ InFlight = {}

\* ------------------------------------------------------------------------
\* Claim about readers that run while a refresh is suspended (under Spec)
\* ------------------------------------------------------------------------

\* C13: a reader that runs at a suspension point of a running refresh never
\* sees a partly updated set: the held set changes only within the step
\* that ends the call that made the refresh (never while the refresh is
\* suspended), and a read made while a refresh is suspended returns exactly
\* the held set.
C13_NoPartialUpdateObserved ==
  [][/\ authorities' # authorities => ret'.refreshed
     /\ (ret'.op = "get_authorities" /\ ~ret'.refreshed /\ Refreshing # {}) => ret'.result = Values(authorities)]_vars

\* a read has just returned held records while a refresh, dispatched on a
\* non-empty held set, is still suspended in its GET
C13_Witness ==
  /\ ret.op = "get_authorities"
  /\ ~ret.refreshed
  /\ ret.result # {}
  /\ Refreshing # {}

\* ------------------------------------------------------------------------
\* Claim about what a probe leaves alone (under SpecPing)
\* ------------------------------------------------------------------------

\* every record held before the step is held after it with the same
\* address, position and committee members
RecordsKept == \A n \in DOMAIN authorities : n \in DOMAIN authorities' /\ Kept(authorities'[n]) = Kept(authorities[n])

\* C15 as stated: no step of a probe (any step of a ping_mesh_authority
\* call, from the call to its return, and any step of the probes of
\* ping_all_authorities) changes the address, position or committee members
\* of a held record.
C15_ProbeKeepsRecords ==
  [][(pc[Owner] \in {"ping_created", "ping_wait", "ping_discover_wait", "ping_post_wait"} \/ pc'[Owner] \in {"ping_discover_wait", "ping_post_wait"} \/ ret'.op = "ping")
       => RecordsKept]_vars

\* C15 amended: the same for every step of a probe other than the discovery
\* that ping_mesh_authority runs first for a name that is not held.
C15_ProbeOfHeldKeepsRecords ==
  [][(pc[Owner] \in {"ping_created", "ping_wait", "ping_post_wait"} \/ (pc[Owner] = "idle" /\ pc'[Owner] = "ping_post_wait") \/ (pc[Owner] = "idle" /\ ret'.op = "ping" /\ ~ret'.refreshed))
       => RecordsKept]_vars

\* a ping_mesh_authority of a held authority has just failed while records
\* are held
C15_Witness ==
  /\ ret.op = "ping"
  /\ ret.http = 1
  /\ ret.raised # "none"
  /\ "auth1" \in DOMAIN authorities

\* ------------------------------------------------------------------------
\* Claim about retries (under SpecTransfer)
\* ------------------------------------------------------------------------

\* retry_config.max_attempts, as the validation script sets it
RetryMaxAttempts == 2

\* C16: a communication error reaches the caller of send_mesh_transfer only
\* once the retries are used up: while the call has issued fewer requests
\* than RetryMaxAttempts, a transient failure of its POST (a transport
\* error or an error status) is not handed to the caller.
C16_ErrorOnlyAfterRetries ==
  [][(pc[Owner] = "transfer_post_wait" /\ call[Owner].http < RetryMaxAttempts)
       => ~(ret'.op = "transfer" /\ ret'.raised = "HTTP error")]_vars

\* ------------------------------------------------------------------------
\* Claim about the validation of transfers (under SpecValidate)
\* ------------------------------------------------------------------------

\* the amount denotes an integer: an int, a float without fraction or a
\* string of digits
IsInteger(x) == IF x.type = "float" THEN x.tenths = 0 ELSE PyInt(x).err = "none"

\* the body is malformed: a required field is missing, the amount is no
\* integer or is not positive, or the token address does not start with 0x
Malformed(body) ==
  \/ \E i \in 1..Len(RequiredFields) : RequiredFields[i] \notin DOMAIN body
  \/ ~IsInteger(body["amount"])
  \/ PyInt(body["amount"]).val <= 0
  \/ ~Truthy(body["token_address"])
  \/ ~StartsWith(body["token_address"].chars, <<"0", "x">>)

\* C17: send_transfer / send_transfer_to_authority called with a malformed
\* body raises at once: the call has returned with an error and has issued
\* no HTTP request.
C17_MalformedRaisesAtOnce ==
  (mesh_client.call.fn # "none" /\ Malformed(mesh_client.call.body))
    => (mesh_client.call.state = "returned" /\ mesh_client.call.raised # "none" /\ mesh_client.call.http = 0)

\* ------------------------------------------------------------------------
\* Claim about what the snapshot on disk holds (under SpecStore)
\* ------------------------------------------------------------------------

\* a save has just written the discovery file
SaveWrote == store_in'.done /\ ~store_out'.done /\ discovery_file' # discovery_file

C21_OnlyCommunicationError ==
  (ret.op \in {"ping", "transfer"} /\ ret.raised # "none") => ExceptionType(ret) = "MeshAuthorityCommunicationError"

\* C27: ping_mesh_authority / send_mesh_transfer for a name that is not held
\* runs one discovery (one GET /authorities); when the name is still not
\* held after it, the call ends with 'Authority not found' and has sent no
\* ping or transfer request.
C27_UnknownNameNotFound ==
  [][pc[Owner] \in {"ping_discover_wait", "transfer_discover_wait"} =>
       LET n == CHOOSE m \in DOMAIN probes[Owner] : TRUE IN
       /\ call[Owner].http = 1
       /\ n \notin DOMAIN authorities' => (pc'[Owner] = "idle" /\ ret'.op \in {"ping", "transfer"} /\ ret'.raised = "Authority not found" /\ ret'.http = 1)]_vars

\* the error class the docstring of each gateway operation names
ErrorTypeOf(op) == IF op = "discover" THEN "MeshAuthorityDiscoveryError" ELSE IF op = "status" THEN "MeshGatewayError" ELSE "MeshAuthorityCommunicationError"

\* C28: a gateway operation (discover_mesh_authorities, send_mesh_transfer,
\* ping_mesh_authority, get_mesh_gateway_status) called while the client is
\* not running (before start() or after stop() has returned) ends at once
\* with 'Client not started' of the operation's error type and issues no
\* HTTP request; called while the client is running (also after a later
\* start()) it does not end with 'Client not started'.
C28_NotStartedRaises ==
  [][ret'.op \in {"discover", "transfer", "ping", "status"} =>
       /\ (pc[Owner] = "idle" /\ ~_running) => (ret'.raised = "Client not started" /\ ret'.http = 0 /\ RaisedType(ret') = ErrorTypeOf(ret'.op))
       /\ ret'.client = "open" => (_running /\ ret'.raised # "Client not started")]_vars

\* a transfer has just failed with 'Client not started' on a client that
\* was started (it holds records) and stopped again
C28_Witness ==
  /\ ret.op = "transfer"
  /\ ret.raised = "Client not started"
  /\ ~_running
  /\ authorities # << >>

\* ------------------------------------------------------------------------
\* Claim about MeshClient.discover (under SpecMeshDiscover)
\* ------------------------------------------------------------------------

\* the last entry of the list that has name n
LastNamed(list, n) == list[CHOOSE i \in 1..Len(list) : list[i].name = n /\ \A j \in (i + 1)..Len(list) : list[j].name # n]

\* C25: a discover() call whose gateway request fails (no answer, an error
\* status, a body that is no JSON, a closed client) raises MeshClientError
\* and leaves the cache as it was when the call was made; a call that
\* returns after a request has replaced the cache with exactly the
\* authorities of the response, keyed by name.
C25_DiscoverAllOrNothing ==
  mesh_client.disc.state = "returned" =>
    LET d == mesh_client.disc IN
    /\ (d.resp.kind \in {"http_error", "bad_json"} \/ (d.http = 0 /\ mesh_client._http = "closed" /\ d.raised # "none"))
         => (d.raised = "MeshClientError" /\ mesh_client._cache = d.before)
    /\ (d.http = 1 /\ d.raised = "none")
         => /\ DOMAIN mesh_client._cache = { d.resp.list[i].name : i \in 1..Len(d.resp.list) }
            /\ \A n \in DOMAIN mesh_client._cache : mesh_client._cache[n] = LastNamed(d.resp.list, n)

\* a forced discover has just returned and has dropped an authority that
\* the cache held
C25_Witness ==
  /\ mesh_client.disc.state = "returned"
  /\ mesh_client.disc.http = 1
  /\ mesh_client.disc.raised = "none"
  /\ \E n \in DOMAIN mesh_client.disc.before : n \notin DOMAIN mesh_client._cache

\* ------------------------------------------------------------------------
\* Claim about ConnectionManager.broadcast (under SpecBroadcast)
\* ------------------------------------------------------------------------

\* C30: when a broadcast ends, during which no websocket connected or
\* disconnected, a send was tried on every connection that was in
\* active_connections when it started, and active_connections holds exactly
\* the connections whose send succeeded.
C30_BroadcastReachesAll ==
  [][(manager.broadcast.state = "sending" /\ manager'.broadcast.state = "ended" /\ ~manager'.broadcast.interleaved) =>
       /\ manager'.broadcast.attempted = SeqToSet(manager'.broadcast.initial)
       /\ SeqToSet(manager'.active_connections) = manager'.broadcast.sent]_vars

\* ------------------------------------------------------------------------
\* Claims about the MeshInternetBridge (under SpecBridge and SpecBridgePost)
\* ------------------------------------------------------------------------

\* C22: after every start and stop call, running is true exactly when
\* server is not None; start() on a running bridge and stop() on a bridge
\* that is not running change nothing; after a start() that returns,
\* running is true and server and server_thread are set; after stop(),
\* running is false and server is None.
C22_BridgeLifecycle ==
  [][reply'.op \in {"start", "stop"} =>
       /\ bridge'.running <=> bridge'.server # "none"
       /\ (reply'.op = "start" /\ bridge.running) => (bridge' = bridge /\ reply'.raised = "none")
       /\ (reply'.op = "stop" /\ ~bridge.running) => bridge' = bridge
       /\ (reply'.op = "start" /\ reply'.raised = "none") => (bridge'.running /\ bridge'.server # "none" /\ bridge'.server_thread # "none")
       /\ reply'.op = "stop" => (~bridge'.running /\ bridge'.server = "none")]_vars

\* a bridge that was started, holds registrations and has been stopped
C22_Witness ==
  /\ reply.op = "stop"
  /\ ~bridge.running
  /\ bridge.server = "none"
  /\ bridge.authorities # << >>

\* C23: start_bridge_server() with a port that the server cannot bind does
\* not raise and leaves the bridge not running.
C23_UnbindablePortHandled ==
  [][(reply'.op = "start" /\ reply'.input # "ok" /\ ~bridge.running) => (reply'.raised = "none" /\ ~bridge'.running)]_vars

\* C24: a GET /authorities answered after the registrations so far lists
\* exactly one entry per registered name, the latest registration of that
\* name, and its count equals the number of listed entries.
C24_OneEntryPerName ==
  [][(reply'.op = "GET" /\ reply'.input = "/authorities" /\ reply'.responses = 1 /\ ~reply'.raced) =>
       LET list == reply'.body.authorities
           log == bridge.registered
       IN  /\ \A i, j \in 1..Len(list) : list[i].name = list[j].name => i = j
           /\ { list[i].name : i \in 1..Len(list) } = { log[i].name : i \in 1..Len(log) }
           /\ \A i \in 1..Len(list) : list[i] = LastNamed(log, list[i].name)
           /\ reply'.body.count = Len(list)]_vars

\* a GET /authorities was answered after a name had registered twice
C24_Witness ==
  /\ reply.op = "GET"
  /\ reply.input = "/authorities"
  /\ reply.responses = 1
  /\ ~reply.raced
  /\ reply.body.count = 2
  /\ Len(bridge.registered) = 3

\* the fields of a POST /transfer body as the claim reads them: a value
\* that is no object has none of them
FieldOf(body, k) == IF body.json = "object" THEN BodyGet(body.fields, k) ELSE NullValue

AllPresent(body) == \A k \in {"sender", "recipient", "amount"} : FieldOf(body, k) # NullValue

AmountConverts(body) == BridgeInt(FieldOf(body, "amount")).err = "none"

SenderRegistered(body) == FieldOf(body, "sender").type = "str" /\ FieldOf(body, "sender").chars \in BridgeClients

\* the error the claim expects for a body that must not be executed
MatchingError(body) == IF ~AllPresent(body) THEN "missing_fields" ELSE IF ~AmountConverts(body) THEN "amount_not_int" ELSE "sender_not_found"

\* C26: for a POST /transfer whose body parses, client.transfer is invoked
\* if and only if sender, recipient and amount are present, amount converts
\* to an integer and sender names a registered client; in every other case
\* the result is success = False with the matching error and nothing is
\* executed; the HTTP status is 200 exactly when success is true.
C26_TransferOnlyWhenValid ==
  [][(reply'.op = "POST" /\ reply'.input.path \in {"/transfer", "/transfer/"} /\ reply'.input.body.json # "invalid") =>
       LET body == reply'.input.body
           valid == AllPresent(body) /\ AmountConverts(body) /\ SenderRegistered(body)
       IN  /\ reply'.invoked <=> valid
           /\ ~valid => (reply'.raised = "none" /\ reply'.responses = 1 /\ reply'.body.success = FALSE /\ reply'.body.error = MatchingError(body))
           /\ reply'.responses = 1 /\ (reply'.code = 200 <=> reply'.body.success)]_vars

\* C29: every POST request that the running bridge handles is answered
\* with exactly one JSON response, whatever its path.
C29_EveryPostAnswered ==
  [][reply'.op = "POST" => reply'.responses = 1]_vars

====
